---- MODULE Spec2Model ----
(***************************************************************************)
(* Model of src/src/lib/database.ts: the salon persistence layer.  Six     *)
(* SQLite tables, the bootstrap (initDatabase), the detached seed step     *)
(* (insertInitialData and its import().then callback) and the per-entity   *)
(* repositories.  A table is a function from primary key to row; a row is  *)
(* a record whose fields are the column names of the CREATE TABLE          *)
(* statement.  A JavaScript object is a record; a property that is         *)
(* undefined is a field that is not in the record's DOMAIN.                *)
(***************************************************************************)
EXTENDS Integers, Sequences, FiniteSets, TLC

VARIABLES foreign_keys, customers, employees, services, appointments,
          tally_items, products, pending, clock, ops, last

vars == <<foreign_keys, customers, employees, services, appointments,
          tally_items, products, pending, clock, ops, last>>

tables == <<customers, employees, services, appointments, tally_items, products>>

(***************************************************************************)
(* Bounds of the exploration.                                              *)
(***************************************************************************)
MaxOps == 3

(***************************************************************************)
(* Values.                                                                 *)
(***************************************************************************)
\* SQL NULL in a TEXT column (JavaScript null when read back).
NULL == "<NULL>"

\* Date.now() rendered into a generated key: `cust-${Date.now()}` and so on.
GenId(prefix, t) == <<prefix, t>>

\* new Date().toISOString() at time t.
ISOString(t) == <<"iso", t>>

\* CURRENT_TIMESTAMP, the column default of created_at / updated_at.
CURRENT_TIMESTAMP(t) == <<"sql", t>>

\* JavaScript: obj.f !== undefined
Defined(obj, f) == f \in DOMAIN obj

\* JavaScript truthiness of a string property: undefined and '' are falsy.
TruthyStr(obj, f) == f \in DOMAIN obj /\ obj[f] # ""

\* JavaScript truthiness of a number property: undefined and 0 are falsy.
TruthyNum(obj, f) == f \in DOMAIN obj /\ obj[f] # 0

\* JavaScript truthiness of an array or object property: only undefined is falsy.
TruthyObj(obj, f) == f \in DOMAIN obj

\* better-sqlite3 binds numbers, strings, bigints, buffers and null; a bound
\* parameter that is undefined makes run() throw a TypeError before the
\* statement executes.
Bindable(obj, fs) == \A f \in fs : f \in DOMAIN obj

(***************************************************************************)
(* JSON text of a list of strings: a sequence of tokens.                   *)
(***************************************************************************)
RECURSIVE JSONitems(_)
JSONitems(list) ==
  IF list = <<>> THEN <<>>
  ELSE IF Len(list) = 1 THEN <<list[1]>>
  ELSE <<list[1], ",">> \o JSONitems(Tail(list))

JSONstringify(list) == <<"[">> \o JSONitems(list) \o <<"]">>

\* JSON.parse of an array text: the tokens between the brackets that are
\* not separators, in order.
JSONparse(text) ==
  LET inner == SubSeq(text, 2, Len(text) - 1)
  IN  [k \in 1..((Len(inner) + 1) \div 2) |-> inner[2 * k - 1]]

\* JSON.parse(col || '[]'): an empty text column reads as the empty list.
JSONparseOrEmpty(text) == IF text = <<>> THEN JSONparse(<<"[", "]">>) ELSE JSONparse(text)

(***************************************************************************)
(* Statement results.                                                      *)
(***************************************************************************)
OK == "ok"
PRIMARYKEY == "SQLITE_CONSTRAINT_PRIMARYKEY"
UNIQUE == "SQLITE_CONSTRAINT_UNIQUE"
FOREIGNKEY == "SQLITE_CONSTRAINT_FOREIGNKEY"
CHECKFAIL == "SQLITE_CONSTRAINT_CHECK"
NOTNULL == "SQLITE_CONSTRAINT_NOTNULL"
TYPEERROR == "TypeError"

Result(tbl, err) == [tbl |-> tbl, err |-> err]

\* The row of a table with some columns overwritten (UPDATE ... SET).
SetCols(row, sets) == [c \in DOMAIN row |-> IF c \in DOMAIN sets THEN sets[c] ELSE row[c]]

(***************************************************************************)
(* The schema (createTables): what each table's constraints make of an     *)
(* INSERT, an UPDATE ... WHERE id = ? and a DELETE ... WHERE id = ?.  A    *)
(* statement that violates a constraint changes nothing.                   *)
(***************************************************************************)
Genders == {"male", "female"}
AppointmentStatuses == {"scheduled", "completed", "cancelled"}
PaymentMethods == {"cash", "card", "upi"}
PaymentStatuses == {"pending", "completed", "failed", "cancelled"}

\* The phone column declared without UNIQUE.
PhoneNotUnique(tbl, id, phone) == TRUE

\* phone TEXT NOT NULL UNIQUE: no row other than `id` holds the phone.
PhoneFree(tbl, id, phone) == \A i \in DOMAIN tbl : i = id \/ tbl[i].phone # phone

\* CREATE TABLE <table>: the NOT NULL, CHECK and UNIQUE constraints a new or
\* changed row must meet.  A CHECK(col IN (...)) passes when the column is NULL.
Constraint(table, tbl, row) ==
  CASE table = "customers" ->
         IF row.name = NULL \/ row.phone = NULL \/ row.gender = NULL THEN NOTNULL
         ELSE IF row.gender \notin Genders THEN CHECKFAIL
         ELSE IF ~PhoneFree(tbl, row.id, row.phone) THEN UNIQUE
         ELSE OK
    [] table = "employees" ->
         IF row.name = NULL \/ row.role = NULL THEN NOTNULL ELSE OK
    [] table = "services" ->
         IF row.name = NULL \/ row.category = NULL THEN NOTNULL ELSE OK
    [] table = "appointments" ->
         IF row.date = NULL \/ row.time = NULL THEN NOTNULL
         ELSE IF row.status # NULL /\ row.status \notin AppointmentStatuses THEN CHECKFAIL
         ELSE OK
    [] table = "tally_items" ->
         IF row.payment_method = NULL THEN NOTNULL
         ELSE IF row.payment_method \notin PaymentMethods THEN CHECKFAIL
         ELSE IF row.payment_status # NULL /\ row.payment_status \notin PaymentStatuses THEN CHECKFAIL
         ELSE OK
    [] table = "products" ->
         IF row.name = NULL \/ row.category = NULL THEN NOTNULL ELSE OK

\* FOREIGN KEY (customer_id) REFERENCES customers (id), FOREIGN KEY (employee_id)
\* REFERENCES employees (id): enforced only under PRAGMA foreign_keys = ON.
ForeignKeysHold(fk, row, custs, emps) ==
  fk => (row.customer_id \in DOMAIN custs /\ row.employee_id \in DOMAIN emps)

\* INSERT INTO <table>: created_at and updated_at take their column default.
Insert(table, tbl, row, t) ==
  LET full == row @@ [created_at |-> CURRENT_TIMESTAMP(t), updated_at |-> CURRENT_TIMESTAMP(t)]
      c == Constraint(table, tbl, full)
  IN  IF c # OK /\ c # UNIQUE THEN Result(tbl, c)
      ELSE IF full.id \in DOMAIN tbl THEN Result(tbl, PRIMARYKEY)
      ELSE IF c # OK THEN Result(tbl, c)
      ELSE Result((full.id :> full) @@ tbl, OK)

InsertAppointment(tbl, row, t, fk, custs, emps) ==
  LET r == Insert("appointments", tbl, row, t)
  IN  IF r.err # OK THEN r
      ELSE IF ~ForeignKeysHold(fk, row, custs, emps) THEN Result(tbl, FOREIGNKEY)
      ELSE r

\* An UPDATE that lost its WHERE clause: every row takes the new values.
UpdateEveryRow(table, tbl, id, sets) ==
  IF id \notin DOMAIN tbl THEN Result(tbl, OK)
  ELSE Result([i \in DOMAIN tbl |-> SetCols(tbl[i], sets)], OK)

\* UPDATE <table> SET sets WHERE id = ?: no row matches, nothing happens.
Update(table, tbl, id, sets) ==
  IF id \notin DOMAIN tbl THEN Result(tbl, OK)
  ELSE LET new == SetCols(tbl[id], sets)
           c == Constraint(table, tbl, new)
       IN  IF c # OK THEN Result(tbl, c)
           ELSE Result([tbl EXCEPT ![id] = new], OK)

\* A DELETE whose WHERE clause matches no row.
DeleteNoRow(tbl, id) == Result(tbl, OK)

\* DELETE FROM <table> WHERE id = ?
Delete(tbl, id) == Result([i \in DOMAIN tbl \ {id} |-> tbl[i]], OK)

\* A DELETE of a parent row that the foreign keys do not guard.
DeleteParentUnguarded(tbl, id, fk, appts, col) == Delete(tbl, id)

\* DELETE of a parent row that an appointment references is refused
\* (the declared foreign keys have no ON DELETE action).
DeleteParent(tbl, id, fk, appts, col) ==
  IF fk /\ id \in DOMAIN tbl /\ \E a \in DOMAIN appts : appts[a][col] = id
  THEN Result(tbl, FOREIGNKEY)
  ELSE Delete(tbl, id)

(***************************************************************************)
(* The seed provider, ../data/mockData: four lists in the shape of the     *)
(* domain records.  The second seed customer has the phone that the        *)
(* caller's input Ravi has.                                                *)
(***************************************************************************)
mockCustomers ==
  << [id |-> <<"mock", 1>>, name |-> "Meera", phone |-> "9000000001", email |-> "m@x.in",
      gender |-> "female", visitCount |-> 3, totalSpent |-> 40, lastVisit |-> <<"date", 0>>,
      preferredServices |-> <<"svc-1", "svc-2">>, notes |-> "", photo |-> "m.png"],
     [id |-> <<"mock", 2>>, name |-> "Ravi", phone |-> "9990002222", email |-> "r@x.in",
      gender |-> "male", visitCount |-> 0, totalSpent |-> 0, lastVisit |-> <<"date", 0>>,
      preferredServices |-> <<>>, notes |-> "walk-in", photo |-> "r.png"] >>

mockEmployees ==
  << [id |-> <<"mock", 1>>, name |-> "Priya", role |-> "Stylist", photo |-> "p.png",
      available |-> TRUE, specialties |-> <<"cut">>, rating |-> 4,
      nextAvailable |-> "Now", workingHours |-> [start |-> "10:00", end |-> "19:00"]] >>

mockServices ==
  << [id |-> <<"mock", 1>>, name |-> "Haircut", duration |-> 30, price |-> 20,
      category |-> "hair", description |-> "cut"] >>

mockProducts ==
  << [id |-> <<"mock", 1>>, name |-> "Shampoo", price |-> 9, image |-> "s.png",
      category |-> "hair", stock |-> 5, description |-> "", brand |-> "Lux"] >>

(***************************************************************************)
(* insertInitialData's callback: the four forEach loops.  Each run() is    *)
(* its own statement; the first one that throws ends the callback, and     *)
(* the rows inserted before it stay.                                       *)
(***************************************************************************)
SeedCustomerRow(customer) ==
  [id |-> customer.id, name |-> customer.name, phone |-> customer.phone, email |-> customer.email,
   gender |-> customer.gender, visit_count |-> customer.visitCount,
   total_spent |-> customer.totalSpent, last_visit |-> customer.lastVisit,
   preferred_services |-> JSONstringify(customer.preferredServices),
   notes |-> customer.notes, photo |-> customer.photo]

SeedEmployeeRow(employee) ==
  [id |-> employee.id, name |-> employee.name, role |-> employee.role, email |-> "", phone |-> "",
   photo |-> employee.photo, available |-> IF employee.available THEN 1 ELSE 0,
   specialties |-> JSONstringify(employee.specialties), rating |-> employee.rating,
   next_available |-> employee.nextAvailable,
   working_hours_start |-> employee.workingHours.start,
   working_hours_end |-> employee.workingHours.end]

SeedServiceRow(service) ==
  [id |-> service.id, name |-> service.name, duration |-> service.duration, price |-> service.price,
   category |-> service.category, description |-> service.description]

SeedProductRow(product) ==
  [id |-> product.id, name |-> product.name, price |-> product.price, image |-> product.image,
   category |-> product.category, stock |-> product.stock, description |-> product.description,
   brand |-> product.brand]

\* rows.forEach(row => insert.run(row)) from element i on.
RECURSIVE ForEachInsert(_, _, _, _, _)
ForEachInsert(table, tbl, rows, i, t) ==
  IF i > Len(rows) THEN Result(tbl, OK)
  ELSE LET r == Insert(table, tbl, rows[i], t)
       IN  IF r.err # OK THEN r
           ELSE ForEachInsert(table, r.tbl, rows, i + 1, t)

\* The .then callback of insertInitialData, on the four tables it writes.
SeedCallback(cust, emp, svc, prod, t) ==
  LET c == ForEachInsert("customers", cust, [i \in DOMAIN mockCustomers |-> SeedCustomerRow(mockCustomers[i])], 1, t)
      e == ForEachInsert("employees", emp, [i \in DOMAIN mockEmployees |-> SeedEmployeeRow(mockEmployees[i])], 1, t)
      s == ForEachInsert("services", svc, [i \in DOMAIN mockServices |-> SeedServiceRow(mockServices[i])], 1, t)
      p == ForEachInsert("products", prod, [i \in DOMAIN mockProducts |-> SeedProductRow(mockProducts[i])], 1, t)
  IN  IF c.err # OK THEN [customers |-> c.tbl, employees |-> emp, services |-> svc, products |-> prod, err |-> c.err]
      ELSE IF e.err # OK THEN [customers |-> c.tbl, employees |-> e.tbl, services |-> svc, products |-> prod, err |-> e.err]
      ELSE IF s.err # OK THEN [customers |-> c.tbl, employees |-> e.tbl, services |-> s.tbl, products |-> prod, err |-> s.err]
      ELSE [customers |-> c.tbl, employees |-> e.tbl, services |-> s.tbl, products |-> p.tbl, err |-> p.err]

\* insertInitialData's guard: SELECT COUNT(*) FROM customers is 0.
SeedNeeded(cust) == Cardinality(DOMAIN cust) = 0

(***************************************************************************)
(* State.  The module calls initDatabase() when it is loaded (server       *)
(* side), so the first state is the one that call leaves on a fresh        *)
(* salon.db: foreign keys on, six empty tables and the seed callback       *)
(* scheduled.                                                              *)
(***************************************************************************)
NoTable == <<>>

Call(op, id, arg, err, ret) == [op |-> op, id |-> id, arg |-> arg, err |-> err, ret |-> ret]

\* Some table of the store holds a row.
StoreNonEmpty ==
  \/ DOMAIN customers # {} \/ DOMAIN employees # {} \/ DOMAIN services # {}
  \/ DOMAIN appointments # {} \/ DOMAIN tally_items # {} \/ DOMAIN products # {}

\* insertInitialData that never starts the import().
InitPendingNever(cust, queue, nonEmpty) == queue

\* insertInitialData: when customers is empty the import() is started and its
\* callback joins the ones waiting to run.  A waiting callback is recorded
\* with what the store was like when it was scheduled.
InitPending(cust, queue, nonEmpty) ==
  IF SeedNeeded(cust) THEN Append(queue, [nonEmpty |-> nonEmpty]) ELSE queue

\* The connection as SQLite opens it when the pragma is not issued.
InitWithoutPragma == FALSE

\* db.pragma('foreign_keys = ON')
InitForeignKeys == TRUE

\* A call or a tick, of which a run takes at most MaxOps.
Counted == ops < MaxOps /\ ops' = ops + 1

Init ==
  /\ foreign_keys = InitForeignKeys
  /\ customers = NoTable /\ employees = NoTable /\ services = NoTable
  /\ appointments = NoTable /\ tally_items = NoTable /\ products = NoTable
  /\ pending = InitPending(NoTable, <<>>, FALSE)
  /\ clock = 0
  /\ ops = 0
  /\ last = Call("initDatabase", <<>>, <<>>, OK, <<>>)

\* An initDatabase that runs the seed inserts before it returns.
InitDatabaseSeedsInline ==
  /\ Counted
  /\ foreign_keys' = InitForeignKeys
  /\ LET r == IF SeedNeeded(customers)
              THEN SeedCallback(customers, employees, services, products, clock)
              ELSE [customers |-> customers, employees |-> employees, services |-> services,
                    products |-> products, err |-> OK]
     IN  /\ customers' = r.customers
         /\ employees' = r.employees
         /\ services' = r.services
         /\ products' = r.products
  /\ last' = Call("initDatabase", <<>>, <<>>, OK, <<>>)
  /\ UNCHANGED <<appointments, tally_items, pending, clock>>

\* initDatabase() called again: new Database on the same file, the pragma,
\* createTables (CREATE TABLE IF NOT EXISTS keeps the rows), insertInitialData.
InitDatabase ==
  /\ Counted
  /\ foreign_keys' = InitForeignKeys
  /\ pending' = InitPending(customers, pending, StoreNonEmpty)
  /\ last' = Call("initDatabase", <<>>, <<>>, OK, <<>>)
  /\ UNCHANGED <<tables, clock>>

\* The import('../data/mockData') promise resolves and its callback runs.
SeedStep ==
  /\ pending # <<>>
  /\ LET r == SeedCallback(customers, employees, services, products, clock)
     IN  /\ customers' = r.customers
         /\ employees' = r.employees
         /\ services' = r.services
         /\ products' = r.products
         /\ last' = Call("seed", <<>>, Head(pending), r.err, <<>>)
  /\ pending' = Tail(pending)
  /\ UNCHANGED <<foreign_keys, appointments, tally_items, clock, ops>>

\* Time passes: Date.now() and CURRENT_TIMESTAMP advance.
Tick ==
  /\ Counted
  /\ clock' = clock + 1
  /\ UNCHANGED <<foreign_keys, tables, pending, last>>

(***************************************************************************)
(* customerDb                                                              *)
(***************************************************************************)
\* What a lookup that finds no row returns (null).
Absent == [absent |-> TRUE]

\* The row -> Customer mapping of getAll and getById.
CustomerOfRow(row) ==
  [id |-> row.id, name |-> row.name, phone |-> row.phone, email |-> row.email,
   gender |-> row.gender, visitCount |-> row.visit_count, totalSpent |-> row.total_spent,
   lastVisit |-> row.last_visit,
   preferredServices |-> JSONparseOrEmpty(row.preferred_services),
   notes |-> row.notes, photo |-> row.photo]

\* getAll, as the set of records it lists (the ORDER BY is not modelled).
CustomerGetAll(tbl) == {CustomerOfRow(tbl[i]) : i \in DOMAIN tbl}

CustomerGetById(tbl, id) == IF id \in DOMAIN tbl THEN CustomerOfRow(tbl[id]) ELSE Absent

\* The parameters create binds: notes || '' is the only one with a fallback.
CustomerCreateRow(customer, id, now) ==
  [id |-> id, name |-> customer.name, phone |-> customer.phone, email |-> customer.email,
   gender |-> customer.gender, visit_count |-> 0, total_spent |-> 0, last_visit |-> now,
   preferred_services |-> JSONstringify(customer.preferredServices),
   notes |-> IF TruthyStr(customer, "notes") THEN customer.notes ELSE "",
   photo |-> customer.photo]

\* { ...customer, id, visitCount: 0, totalSpent: 0, lastVisit: now }
CustomerCreateReturn(customer, id, now) ==
  [id |-> id, visitCount |-> 0, totalSpent |-> 0, lastVisit |-> now] @@ customer

\* The columns update assigns, from the guards of its if-statements.
CustomerUpdateCols(updates) ==
  {c \in {"name", "phone", "email", "gender", "visit_count", "total_spent", "last_visit",
          "preferred_services", "notes", "photo"} :
     CASE c = "name" -> TruthyStr(updates, "name")
       [] c = "phone" -> TruthyStr(updates, "phone")
       [] c = "email" -> Defined(updates, "email")
       [] c = "gender" -> TruthyStr(updates, "gender")
       [] c = "visit_count" -> Defined(updates, "visitCount")
       [] c = "total_spent" -> Defined(updates, "totalSpent")
       [] c = "last_visit" -> TruthyObj(updates, "lastVisit")
       [] c = "preferred_services" -> TruthyObj(updates, "preferredServices")
       [] c = "notes" -> Defined(updates, "notes")
       [] c = "photo" -> Defined(updates, "photo")} \cup {"updated_at"}

CustomerUpdateVal(updates, now, c) ==
  CASE c = "name" -> updates.name
    [] c = "phone" -> updates.phone
    [] c = "email" -> updates.email
    [] c = "gender" -> updates.gender
    [] c = "visit_count" -> updates.visitCount
    [] c = "total_spent" -> updates.totalSpent
    [] c = "last_visit" -> updates.lastVisit
    [] c = "preferred_services" -> JSONstringify(updates.preferredServices)
    [] c = "notes" -> updates.notes
    [] c = "photo" -> updates.photo
    [] c = "updated_at" -> now

\* The SET clause update builds: fields.join(', ') and its values.
CustomerUpdateSets(updates, now) ==
  [c \in CustomerUpdateCols(updates) |-> CustomerUpdateVal(updates, now, c)]

CustomerInputs ==
  { [name |-> "Asha", phone |-> "9990001111", email |-> "a@x.in", gender |-> "female",
     preferredServices |-> <<"svc-1">>, notes |-> "vip", photo |-> "a.png"],
    [name |-> "Ravi K", phone |-> "9990002222", email |-> "", gender |-> "male",
     preferredServices |-> <<>>, photo |-> "r.png"] }

CustomerUpdates ==
  { [name |-> ""],
    [phone |-> "9990002222"],
    [email |-> "", visitCount |-> 0, notes |-> "", preferredServices |-> <<>>],
    [name |-> "Asha K", gender |-> "male", totalSpent |-> 15, lastVisit |-> <<"date", 1>>,
     photo |-> "k.png"],
    <<>> }

\* The keys a caller may pass: those of the rows, and one that matches no row.
CustomerIds == DOMAIN customers \cup {GenId("cust", 99)}

CustomerCreate(customer) ==
  LET id == GenId("cust", clock)
      now == ISOString(clock)
      r == IF Bindable(customer, {"name", "phone", "email", "gender", "preferredServices", "photo"})
           THEN Insert("customers", customers, CustomerCreateRow(customer, id, now), clock)
           ELSE Result(customers, TYPEERROR)
  IN  /\ Counted
      /\ customers' = r.tbl
      /\ last' = Call("customerDb.create", id, customer, r.err,
                      IF r.err = OK THEN CustomerCreateReturn(customer, id, now) ELSE Absent)
      /\ UNCHANGED <<foreign_keys, employees, services, appointments, tally_items, products,
                     pending, clock>>

CustomerUpdate(id, updates) ==
  LET now == ISOString(clock)
      r == Update("customers", customers, id, CustomerUpdateSets(updates, now))
  IN  /\ Counted
      /\ customers' = r.tbl
      /\ last' = Call("customerDb.update", id, updates, r.err, <<>>)
      /\ UNCHANGED <<foreign_keys, employees, services, appointments, tally_items, products,
                     pending, clock>>

CustomerDelete(id) ==
  LET r == DeleteParent(customers, id, foreign_keys, appointments, "customer_id")
  IN  /\ Counted
      /\ customers' = r.tbl
      /\ last' = Call("customerDb.delete", id, <<>>, r.err, <<>>)
      /\ UNCHANGED <<foreign_keys, employees, services, appointments, tally_items, products,
                     pending, clock>>

\* A caller reads the customers: getAll().
CustomerRead ==
  /\ Counted
  /\ last' = Call("customerDb.getAll", <<>>, <<>>, OK, CustomerGetAll(customers))
  /\ UNCHANGED <<foreign_keys, tables, pending, clock>>

(***************************************************************************)
(* employeeDb                                                              *)
(***************************************************************************)
EmployeeOfRow(row) ==
  [id |-> row.id, name |-> row.name, role |-> row.role, email |-> row.email, phone |-> row.phone,
   photo |-> row.photo, available |-> (row.available # 0),
   specialties |-> JSONparseOrEmpty(row.specialties), rating |-> row.rating,
   nextAvailable |-> row.next_available,
   workingHours |-> [start |-> row.working_hours_start, end |-> row.working_hours_end]]

EmployeeGetAll(tbl) == {EmployeeOfRow(tbl[i]) : i \in DOMAIN tbl}

\* The parameters create binds, with their || fallbacks.
EmployeeCreateRow(employee, id) ==
  [id |-> id, name |-> employee.name, role |-> employee.role,
   email |-> IF TruthyStr(employee, "email") THEN employee.email ELSE "",
   phone |-> IF TruthyStr(employee, "phone") THEN employee.phone ELSE "",
   photo |-> employee.photo,
   available |-> IF Defined(employee, "available") /\ employee.available THEN 1 ELSE 0,
   specialties |-> JSONstringify(IF TruthyObj(employee, "specialties") THEN employee.specialties ELSE <<>>),
   rating |-> IF TruthyNum(employee, "rating") THEN employee.rating ELSE 5,
   next_available |-> IF TruthyStr(employee, "nextAvailable") THEN employee.nextAvailable ELSE "Now",
   working_hours_start |-> IF TruthyObj(employee, "workingHours") /\ TruthyStr(employee.workingHours, "start")
                           THEN employee.workingHours.start ELSE "09:00",
   working_hours_end |-> IF TruthyObj(employee, "workingHours") /\ TruthyStr(employee.workingHours, "end")
                         THEN employee.workingHours.end ELSE "18:00"]

\* { ...employee, id }
EmployeeCreateReturn(employee, id) == [id |-> id] @@ employee

EmployeeUpdateCols(updates) ==
  {c \in {"name", "role", "email", "phone", "photo", "available", "specialties", "rating",
          "next_available", "working_hours_start", "working_hours_end"} :
     CASE c = "name" -> TruthyStr(updates, "name")
       [] c = "role" -> TruthyStr(updates, "role")
       [] c = "email" -> Defined(updates, "email")
       [] c = "phone" -> Defined(updates, "phone")
       [] c = "photo" -> Defined(updates, "photo")
       [] c = "available" -> Defined(updates, "available")
       [] c = "specialties" -> TruthyObj(updates, "specialties")
       [] c = "rating" -> Defined(updates, "rating")
       [] c = "next_available" -> Defined(updates, "nextAvailable")
       [] c = "working_hours_start" -> TruthyObj(updates, "workingHours")
       [] c = "working_hours_end" -> TruthyObj(updates, "workingHours")} \cup {"updated_at"}

EmployeeUpdateVal(updates, now, c) ==
  CASE c = "name" -> updates.name
    [] c = "role" -> updates.role
    [] c = "email" -> updates.email
    [] c = "phone" -> updates.phone
    [] c = "photo" -> updates.photo
    [] c = "available" -> IF updates.available THEN 1 ELSE 0
    [] c = "specialties" -> JSONstringify(updates.specialties)
    [] c = "rating" -> updates.rating
    [] c = "next_available" -> updates.nextAvailable
    [] c = "working_hours_start" -> updates.workingHours.start
    [] c = "working_hours_end" -> updates.workingHours.end
    [] c = "updated_at" -> now

\* The SET clause update builds: fields.join(', ') and its values.
EmployeeUpdateSets(updates, now) ==
  [c \in EmployeeUpdateCols(updates) |-> EmployeeUpdateVal(updates, now, c)]

EmployeeInputs ==
  { [name |-> "Neha", role |-> "Colorist", email |-> "n@x.in", phone |-> "9990003333",
     photo |-> "n.png", available |-> TRUE, specialties |-> <<"color", "spa">>, rating |-> 4,
     nextAvailable |-> "2 PM", workingHours |-> [start |-> "11:00", end |-> "20:00"]],
    [name |-> "Om", role |-> "Barber", photo |-> "o.png", available |-> FALSE] }

EmployeeUpdates ==
  { [role |-> ""],
    [available |-> FALSE, rating |-> 0, email |-> "e@x.in", specialties |-> <<>>],
    [name |-> "Priya S", phone |-> "9990004444", photo |-> "", nextAvailable |-> "",
     workingHours |-> [start |-> "08:00", end |-> "16:00"]],
    <<>> }

EmployeeIds == DOMAIN employees \cup {GenId("emp", 99)}

EmployeeCreate(employee) ==
  LET id == GenId("emp", clock)
      r == IF Bindable(employee, {"name", "role", "photo"})
           THEN Insert("employees", employees, EmployeeCreateRow(employee, id), clock)
           ELSE Result(employees, TYPEERROR)
  IN  /\ Counted
      /\ employees' = r.tbl
      /\ last' = Call("employeeDb.create", id, employee, r.err,
                      IF r.err = OK THEN EmployeeCreateReturn(employee, id) ELSE Absent)
      /\ UNCHANGED <<foreign_keys, customers, services, appointments, tally_items, products,
                     pending, clock>>

EmployeeUpdate(id, updates) ==
  LET now == ISOString(clock)
      r == Update("employees", employees, id, EmployeeUpdateSets(updates, now))
  IN  /\ Counted
      /\ employees' = r.tbl
      /\ last' = Call("employeeDb.update", id, updates, r.err, <<>>)
      /\ UNCHANGED <<foreign_keys, customers, services, appointments, tally_items, products,
                     pending, clock>>

EmployeeDelete(id) ==
  LET r == DeleteParent(employees, id, foreign_keys, appointments, "employee_id")
  IN  /\ Counted
      /\ employees' = r.tbl
      /\ last' = Call("employeeDb.delete", id, <<>>, r.err, <<>>)
      /\ UNCHANGED <<foreign_keys, customers, services, appointments, tally_items, products,
                     pending, clock>>

(***************************************************************************)
(* appointmentDb                                                           *)
(***************************************************************************)
AppointmentOfRow(row) ==
  [id |-> row.id, customerId |-> row.customer_id, employeeId |-> row.employee_id,
   serviceIds |-> JSONparse(row.service_ids), date |-> row.date, time |-> row.time,
   status |-> row.status, total |-> row.total, notes |-> row.notes]

AppointmentGetAll(tbl) == {AppointmentOfRow(tbl[i]) : i \in DOMAIN tbl}

AppointmentCreateRow(appointment) ==
  [id |-> appointment.id, customer_id |-> appointment.customerId,
   employee_id |-> appointment.employeeId,
   service_ids |-> JSONstringify(appointment.serviceIds), date |-> appointment.date,
   time |-> appointment.time, status |-> appointment.status, total |-> appointment.total,
   notes |-> IF TruthyStr(appointment, "notes") THEN appointment.notes ELSE ""]

\* update looks at status, notes and total only.
AppointmentUpdateCols(updates) ==
  {c \in {"status", "notes", "total"} :
     CASE c = "status" -> TruthyStr(updates, "status")
       [] c = "notes" -> Defined(updates, "notes")
       [] c = "total" -> Defined(updates, "total")} \cup {"updated_at"}

AppointmentUpdateVal(updates, now, c) ==
  CASE c = "status" -> updates.status
    [] c = "notes" -> updates.notes
    [] c = "total" -> updates.total
    [] c = "updated_at" -> now

\* The SET clause update builds: fields.join(', ') and its values.
AppointmentUpdateSets(updates, now) ==
  [c \in AppointmentUpdateCols(updates) |-> AppointmentUpdateVal(updates, now, c)]

AppointmentShape(id, customerId, employeeId) ==
  [id |-> id, customerId |-> customerId, employeeId |-> employeeId, serviceIds |-> <<"svc-1">>,
   date |-> "2025-01-01", time |-> "10:00", status |-> "scheduled", total |-> 20]

AppointmentInputs ==
  { AppointmentShape(<<"apt", 1>>, <<"mock", 1>>, <<"mock", 1>>),
    AppointmentShape(<<"apt", 2>>, <<"mock", 2>>, <<"mock", 1>>) @@ [notes |-> "late"],
    AppointmentShape(<<"apt", 1>>, GenId("cust", 99), <<"mock", 1>>),
    AppointmentShape(<<"apt", 2>>, <<"mock", 1>>, GenId("emp", 99)) }

AppointmentUpdates ==
  { [status |-> "completed"],
    [status |-> "", notes |-> "", total |-> 0],
    [date |-> "2025-01-02", notes |-> "moved"],
    <<>> }

AppointmentIds == DOMAIN appointments \cup {<<"apt", 99>>}

AppointmentCreate(appointment) ==
  LET r == IF Bindable(appointment, {"id", "customerId", "employeeId", "serviceIds", "date",
                                     "time", "status", "total"})
           THEN InsertAppointment(appointments, AppointmentCreateRow(appointment), clock,
                                  foreign_keys, customers, employees)
           ELSE Result(appointments, TYPEERROR)
  IN  /\ Counted
      /\ appointments' = r.tbl
      /\ last' = Call("appointmentDb.create", appointment.id, appointment, r.err, <<>>)
      /\ UNCHANGED <<foreign_keys, customers, employees, services, tally_items, products,
                     pending, clock>>

AppointmentUpdate(id, updates) ==
  LET now == ISOString(clock)
      r == Update("appointments", appointments, id, AppointmentUpdateSets(updates, now))
  IN  /\ Counted
      /\ appointments' = r.tbl
      /\ last' = Call("appointmentDb.update", id, updates, r.err, <<>>)
      /\ UNCHANGED <<foreign_keys, customers, employees, services, tally_items, products,
                     pending, clock>>

(***************************************************************************)
(* tallyDb                                                                 *)
(***************************************************************************)
TallyOfRow(row) ==
  [id |-> row.id, date |-> row.date, time |-> row.time, customerName |-> row.customer_name,
   customerPhone |-> row.customer_phone, staffName |-> row.staff_name,
   services |-> JSONparse(row.services), totalCost |-> row.total_cost,
   paymentMethod |-> row.payment_method, paymentStatus |-> row.payment_status,
   paymentDate |-> row.payment_date, upiTransactionId |-> row.upi_transaction_id]

TallyGetAll(tbl) == {TallyOfRow(tbl[i]) : i \in DOMAIN tbl}

\* The INSERT names no upi_transaction_id: the column is NULL.
TallyCreateRow(item, id, paymentDate) ==
  [id |-> id, date |-> item.date, time |-> item.time, customer_name |-> item.customerName,
   customer_phone |-> item.customerPhone, staff_name |-> item.staffName,
   services |-> JSONstringify(item.services), total_cost |-> item.totalCost,
   payment_method |-> item.paymentMethod, payment_status |-> item.paymentStatus,
   payment_date |-> paymentDate, upi_transaction_id |-> NULL]

\* { ...item, id, paymentDate, upiTransactionId: undefined }
TallyCreateReturn(item, id, paymentDate) ==
  LET r == [id |-> id, paymentDate |-> paymentDate] @@ item
  IN  [f \in DOMAIN r \ {"upiTransactionId"} |-> r[f]]

\* SET payment_status = ?, upi_transaction_id = ?, updated_at = ?
\* bound to status, upiTransactionId || null, the current time.
TallyPaymentCols == {"payment_status", "upi_transaction_id", "updated_at"}

TallyPaymentVal(payment, now, c) ==
  CASE c = "payment_status" -> payment.status
    [] c = "upi_transaction_id" ->
         IF TruthyStr(payment, "upiTransactionId") THEN payment.upiTransactionId ELSE NULL
    [] c = "updated_at" -> now

\* An UPDATE that also stamps payment_date.
TallyPaymentSetsRestamp(payment, now) ==
  [c \in TallyPaymentCols |-> TallyPaymentVal(payment, now, c)] @@ [payment_date |-> now]

TallyPaymentSets(payment, now) ==
  [c \in TallyPaymentCols |-> TallyPaymentVal(payment, now, c)]

TallyShape(paymentMethod, paymentStatus) ==
  [date |-> "2025-01-01", time |-> "10:30", customerName |-> "Asha",
   customerPhone |-> "9990001111", staffName |-> "Priya", services |-> <<"Haircut", "Spa">>,
   totalCost |-> 45, paymentMethod |-> paymentMethod, paymentStatus |-> paymentStatus]

TallyInputs == { TallyShape("upi", "pending"), TallyShape("cash", "completed") }

\* The arguments of updatePaymentStatus: the status and the optional transaction id.
TallyPayments ==
  { [status |-> "completed", upiTransactionId |-> "TXN123"],
    [status |-> "failed"],
    [status |-> "cancelled", upiTransactionId |-> ""] }

TallyIds == DOMAIN tally_items \cup {GenId("tally", 99)}

TallyCreate(item) ==
  LET id == GenId("tally", clock)
      paymentDate == ISOString(clock)
      r == IF Bindable(item, {"date", "time", "customerName", "customerPhone", "staffName",
                              "services", "totalCost", "paymentMethod", "paymentStatus"})
           THEN Insert("tally_items", tally_items, TallyCreateRow(item, id, paymentDate), clock)
           ELSE Result(tally_items, TYPEERROR)
  IN  /\ Counted
      /\ tally_items' = r.tbl
      /\ last' = Call("tallyDb.create", id, item, r.err,
                      IF r.err = OK THEN TallyCreateReturn(item, id, paymentDate) ELSE Absent)
      /\ UNCHANGED <<foreign_keys, customers, employees, services, appointments, products,
                     pending, clock>>

TallyUpdatePaymentStatus(id, payment) ==
  LET now == ISOString(clock)
      r == Update("tally_items", tally_items, id, TallyPaymentSets(payment, now))
  IN  /\ Counted
      /\ tally_items' = r.tbl
      /\ last' = Call("tallyDb.updatePaymentStatus", id, payment, r.err, <<>>)
      /\ UNCHANGED <<foreign_keys, customers, employees, services, appointments, products,
                     pending, clock>>

(***************************************************************************)
(* serviceDb                                                               *)
(***************************************************************************)
\* getAll returns the rows as they are stored.
ServiceGetAll(tbl) == {tbl[i] : i \in DOMAIN tbl}

ServiceCreateRow(service) ==
  [id |-> service.id, name |-> service.name, duration |-> service.duration,
   price |-> service.price, category |-> service.category, description |-> service.description]

ServiceUpdateCols(updates) ==
  {c \in {"name", "duration", "price", "category", "description"} :
     CASE c = "name" -> TruthyStr(updates, "name")
       [] c = "duration" -> Defined(updates, "duration")
       [] c = "price" -> Defined(updates, "price")
       [] c = "category" -> TruthyStr(updates, "category")
       [] c = "description" -> Defined(updates, "description")} \cup {"updated_at"}

ServiceUpdateVal(updates, now, c) ==
  CASE c = "name" -> updates.name
    [] c = "duration" -> updates.duration
    [] c = "price" -> updates.price
    [] c = "category" -> updates.category
    [] c = "description" -> updates.description
    [] c = "updated_at" -> now

\* The SET clause update builds: fields.join(', ') and its values.
ServiceUpdateSets(updates, now) ==
  [c \in ServiceUpdateCols(updates) |-> ServiceUpdateVal(updates, now, c)]

ServiceInputs ==
  { [id |-> <<"svc", 1>>, name |-> "Facial", duration |-> 45, price |-> 30, category |-> "skin",
     description |-> "glow"],
    [id |-> <<"mock", 1>>, name |-> "Shave", duration |-> 15, price |-> 8, category |-> "hair",
     description |-> ""] }

ServiceUpdates ==
  { [category |-> ""],
    [name |-> "Trim", duration |-> 0, price |-> 0, description |-> ""],
    <<>> }

ServiceIds == DOMAIN services \cup {<<"svc", 99>>}

ServiceCreate(service) ==
  LET r == IF Bindable(service, {"id", "name", "duration", "price", "category", "description"})
           THEN Insert("services", services, ServiceCreateRow(service), clock)
           ELSE Result(services, TYPEERROR)
  IN  /\ Counted
      /\ services' = r.tbl
      /\ last' = Call("serviceDb.create", service.id, service, r.err, <<>>)
      /\ UNCHANGED <<foreign_keys, customers, employees, appointments, tally_items, products,
                     pending, clock>>

ServiceUpdate(id, updates) ==
  LET now == ISOString(clock)
      r == Update("services", services, id, ServiceUpdateSets(updates, now))
  IN  /\ Counted
      /\ services' = r.tbl
      /\ last' = Call("serviceDb.update", id, updates, r.err, <<>>)
      /\ UNCHANGED <<foreign_keys, customers, employees, appointments, tally_items, products,
                     pending, clock>>

ServiceDelete(id) ==
  LET r == Delete(services, id)
  IN  /\ Counted
      /\ services' = r.tbl
      /\ last' = Call("serviceDb.delete", id, <<>>, r.err, <<>>)
      /\ UNCHANGED <<foreign_keys, customers, employees, appointments, tally_items, products,
                     pending, clock>>

(***************************************************************************)
(* productDb                                                               *)
(***************************************************************************)
ProductGetAll(tbl) == {tbl[i] : i \in DOMAIN tbl}

ProductCreateRow(product) ==
  [id |-> product.id, name |-> product.name, price |-> product.price, image |-> product.image,
   category |-> product.category, stock |-> product.stock,
   description |-> product.description, brand |-> product.brand]

ProductUpdateCols(updates) ==
  {c \in {"name", "price", "image", "category", "stock", "description", "brand"} :
     CASE c = "name" -> TruthyStr(updates, "name")
       [] c = "price" -> Defined(updates, "price")
       [] c = "image" -> Defined(updates, "image")
       [] c = "category" -> TruthyStr(updates, "category")
       [] c = "stock" -> Defined(updates, "stock")
       [] c = "description" -> Defined(updates, "description")
       [] c = "brand" -> TruthyStr(updates, "brand")} \cup {"updated_at"}

ProductUpdateVal(updates, now, c) ==
  CASE c = "name" -> updates.name
    [] c = "price" -> updates.price
    [] c = "image" -> updates.image
    [] c = "category" -> updates.category
    [] c = "stock" -> updates.stock
    [] c = "description" -> updates.description
    [] c = "brand" -> updates.brand
    [] c = "updated_at" -> now

\* The SET clause update builds: fields.join(', ') and its values.
ProductUpdateSets(updates, now) ==
  [c \in ProductUpdateCols(updates) |-> ProductUpdateVal(updates, now, c)]

ProductInputs ==
  { [id |-> <<"prod", 1>>, name |-> "Serum", price |-> 12, image |-> "x.png",
     category |-> "skin", stock |-> 0, description |-> "", brand |-> "Glo"],
    [id |-> <<"mock", 1>>, name |-> "Gel", price |-> 5, image |-> "g.png",
     category |-> "hair", stock |-> 2, description |-> "hold", brand |-> "Fix"] }

ProductUpdates ==
  { [brand |-> ""],
    [name |-> "Shampoo XL", price |-> 0, stock |-> 0, image |-> "", description |-> "big"],
    <<>> }

ProductIds == DOMAIN products \cup {<<"prod", 99>>}

ProductCreate(product) ==
  LET r == IF Bindable(product, {"id", "name", "price", "image", "category", "stock",
                                 "description", "brand"})
           THEN Insert("products", products, ProductCreateRow(product), clock)
           ELSE Result(products, TYPEERROR)
  IN  /\ Counted
      /\ products' = r.tbl
      /\ last' = Call("productDb.create", product.id, product, r.err, <<>>)
      /\ UNCHANGED <<foreign_keys, customers, employees, services, appointments, tally_items,
                     pending, clock>>

ProductUpdate(id, updates) ==
  LET now == ISOString(clock)
      r == Update("products", products, id, ProductUpdateSets(updates, now))
  IN  /\ Counted
      /\ products' = r.tbl
      /\ last' = Call("productDb.update", id, updates, r.err, <<>>)
      /\ UNCHANGED <<foreign_keys, customers, employees, services, appointments, tally_items,
                     pending, clock>>

ProductDelete(id) ==
  LET r == Delete(products, id)
  IN  /\ Counted
      /\ products' = r.tbl
      /\ last' = Call("productDb.delete", id, <<>>, r.err, <<>>)
      /\ UNCHANGED <<foreign_keys, customers, employees, services, appointments, tally_items,
                     pending, clock>>

(***************************************************************************)
(* Specifications.  Every step is one call of a caller, one run of the     *)
(* seed callback or the passing of time.                                   *)
(***************************************************************************)
\* The seed callback runs whenever it is scheduled; the calls and the clock
\* are cut off after MaxOps steps.
Next ==
  \/ InitDatabase
  \/ SeedStep
  \/ Tick
  \/ \E customer \in CustomerInputs : CustomerCreate(customer)
  \/ \E id \in CustomerIds, updates \in CustomerUpdates : CustomerUpdate(id, updates)
  \/ \E id \in CustomerIds : CustomerDelete(id)
  \/ CustomerRead
  \/ \E employee \in EmployeeInputs : EmployeeCreate(employee)
  \/ \E id \in EmployeeIds, updates \in EmployeeUpdates : EmployeeUpdate(id, updates)
  \/ \E id \in EmployeeIds : EmployeeDelete(id)
  \/ \E appointment \in AppointmentInputs : AppointmentCreate(appointment)
  \/ \E id \in AppointmentIds, updates \in AppointmentUpdates : AppointmentUpdate(id, updates)
  \/ \E item \in TallyInputs : TallyCreate(item)
  \/ \E id \in TallyIds, payment \in TallyPayments : TallyUpdatePaymentStatus(id, payment)
  \/ \E service \in ServiceInputs : ServiceCreate(service)
  \/ \E id \in ServiceIds, updates \in ServiceUpdates : ServiceUpdate(id, updates)
  \/ \E id \in ServiceIds : ServiceDelete(id)
  \/ \E product \in ProductInputs : ProductCreate(product)
  \/ \E id \in ProductIds, updates \in ProductUpdates : ProductUpdate(id, updates)
  \/ \E id \in ProductIds : ProductDelete(id)

Spec == Init /\ [][Next]_vars

(***************************************************************************)
(* What a step was: the call named `op` has just been made.                *)
(***************************************************************************)
Called(op) == last'.op = op /\ ops' = ops + 1 /\ clock' = clock

\* The step was a run of the seed callback.
SeedRan == last'.op = "seed" /\ Len(pending') = Len(pending) - 1

\* The record a read lists for a key, if it lists one.
ListedAs(records, id, rec) == \E x \in records : x.id = id /\ x = rec

\* A record read back with its null properties left out: null and undefined
\* both count as "no value" when two records are compared field by field.
WithoutNull(rec, nullable) ==
  [f \in {g \in DOMAIN rec : g \notin nullable \/ rec[g] # NULL} |-> rec[f]]

(***************************************************************************)
(* C1.  Round-trip fidelity: after a create that the store accepted, the   *)
(* record read back for the generated id (getById for customers, the       *)
(* getAll entry for customers, employees and tally items) is equal, field  *)
(* by field, to the record create returned.                                *)
(***************************************************************************)
C1_RoundTrip ==
  /\ (last.op = "customerDb.create" /\ last.err = OK) =>
        /\ CustomerGetById(customers, last.id) = last.ret
        /\ ListedAs(CustomerGetAll(customers), last.id, last.ret)
  /\ (last.op = "employeeDb.create" /\ last.err = OK) =>
        ListedAs(EmployeeGetAll(employees), last.id, last.ret)
  /\ (last.op = "tallyDb.create" /\ last.err = OK) =>
        \E x \in TallyGetAll(tally_items) :
           x.id = last.id /\ WithoutNull(x, {"upiTransactionId"}) = last.ret

(***************************************************************************)
(* The tables by name, before and after a step, and the repository call    *)
(* that writes each.                                                       *)
(***************************************************************************)
TableNames == {"customers", "employees", "services", "appointments", "tally_items", "products"}

Before(table) ==
  CASE table = "customers" -> customers
    [] table = "employees" -> employees
    [] table = "services" -> services
    [] table = "appointments" -> appointments
    [] table = "tally_items" -> tally_items
    [] table = "products" -> products

After(table) ==
  CASE table = "customers" -> customers'
    [] table = "employees" -> employees'
    [] table = "services" -> services'
    [] table = "appointments" -> appointments'
    [] table = "tally_items" -> tally_items'
    [] table = "products" -> products'

UpdateOps ==
  {"customerDb.update", "employeeDb.update", "appointmentDb.update", "serviceDb.update",
   "productDb.update"}

DeleteOps == {"customerDb.delete", "employeeDb.delete", "serviceDb.delete", "productDb.delete"}

TableOf(op) ==
  CASE op \in {"customerDb.update", "customerDb.delete", "customerDb.create"} -> "customers"
    [] op \in {"employeeDb.update", "employeeDb.delete", "employeeDb.create"} -> "employees"
    [] op \in {"serviceDb.update", "serviceDb.delete", "serviceDb.create"} -> "services"
    [] op \in {"appointmentDb.update", "appointmentDb.create"} -> "appointments"
    [] op \in {"productDb.update", "productDb.delete", "productDb.create"} -> "products"
    [] op \in {"tallyDb.create", "tallyDb.updatePaymentStatus"} -> "tally_items"

\* The field of the domain record that a column holds.
FieldOf(c) ==
  CASE c = "visit_count" -> "visitCount"
    [] c = "total_spent" -> "totalSpent"
    [] c = "last_visit" -> "lastVisit"
    [] c = "preferred_services" -> "preferredServices"
    [] c = "next_available" -> "nextAvailable"
    [] c = "working_hours_start" -> "workingHours"
    [] c = "working_hours_end" -> "workingHours"
    [] c = "customer_id" -> "customerId"
    [] c = "employee_id" -> "employeeId"
    [] c = "service_ids" -> "serviceIds"
    [] OTHER -> c

\* The record a read returns for a row of a table.
RecordOf(table, row) ==
  CASE table = "customers" -> CustomerOfRow(row)
    [] table = "employees" -> EmployeeOfRow(row)
    [] table = "appointments" -> AppointmentOfRow(row)
    [] table = "tally_items" -> TallyOfRow(row)
    [] OTHER -> row

\* Every table but `table` is as it was.
OthersUnchanged(table) == \A t \in TableNames \ {table} : After(t) = Before(t)

(***************************************************************************)
(* C2.  Partial update frame.                                              *)
(***************************************************************************)
\* update(id, partial) has left alone every column of the row whose field is
\* not in the partial input, every other row and every other table.
UpdateFrame(op) ==
  LET id == last'.id
      before == Before(TableOf(op))
      after == After(TableOf(op))
  IN  /\ DOMAIN after = DOMAIN before
      /\ \A i \in DOMAIN before : i # id => after[i] = before[i]
      /\ id \in DOMAIN before =>
            \A c \in DOMAIN before[id] \ {"updated_at"} :
               ~Defined(last'.arg, FieldOf(c)) => after[id][c] = before[id][c]
      /\ OthersUnchanged(TableOf(op))

\* update(id, partial) has set updated_at of the row to the current time.
UpdateStamped(op) ==
  last'.id \in DOMAIN Before(TableOf(op)) =>
     After(TableOf(op))[last'.id].updated_at = ISOString(clock)

\* C2 as claimed: for every existing row id and every partial input, update
\* leaves the absent fields' columns, the other rows and the other tables
\* unchanged and sets updated_at of the row to the current time.
C2_UpdateFrameAndStamp ==
  [][\A op \in UpdateOps : Called(op) => UpdateFrame(op) /\ UpdateStamped(op)]_vars

\* C2 as amended: the frame holds for every update; updated_at is set to the
\* current time by every update the store accepts, and an update the store
\* rejects (a constraint violation) changes nothing at all.
C2_UpdateFrameStampIfAccepted ==
  [][\A op \in UpdateOps :
        Called(op) =>
          /\ UpdateFrame(op)
          /\ last'.err = OK => UpdateStamped(op)
          /\ last'.err # OK => After(TableOf(op)) = Before(TableOf(op))]_vars

\* A customer update that named some fields went through on one of two rows,
\* later than the row was written.
C2_Witness ==
  /\ last.op = "customerDb.update" /\ last.err = OK
  /\ last.id \in DOMAIN customers
  /\ Defined(last.arg, "name") /\ Defined(last.arg, "photo") /\ ~Defined(last.arg, "phone")
  /\ customers[last.id].updated_at = ISOString(clock)
  /\ customers[last.id].created_at # CURRENT_TIMESTAMP(clock)
  /\ Cardinality(DOMAIN customers) > 1

(***************************************************************************)
(* C3.  Partial update effect: after update(id, partial) on an existing    *)
(* row, a read returns, for every field present in the partial input, the  *)
(* value that was supplied.                                                *)
(***************************************************************************)
C3_UpdateWritesEveryField ==
  \A op \in UpdateOps :
     (last.op = op /\ last.err = OK /\ last.id \in DOMAIN Before(TableOf(op))) =>
        LET rec == RecordOf(TableOf(op), Before(TableOf(op))[last.id])
        IN  \A f \in DOMAIN last.arg : f \in DOMAIN rec /\ rec[f] = last.arg[f]

(***************************************************************************)
(* C4.  Not-found is not an error.                                         *)
(***************************************************************************)
\* After delete(id) a lookup of id finds nothing.
Gone(op) ==
  /\ last'.id \notin DOMAIN After(TableOf(op))
  /\ op = "customerDb.delete" => CustomerGetById(customers', last'.id) = Absent

\* delete(id) or update(id, partial) with an id that matches no row does not
\* raise and leaves every table unchanged.
NoRowNoError(op) ==
  last'.id \notin DOMAIN Before(TableOf(op)) => (last'.err = OK /\ tables' = tables)

\* C4 as claimed: in any reachable state delete(id) followed by getById(id)
\* returns absent, and delete or update of an id that matches no row does
\* not raise and changes no table.
C4_DeleteThenAbsent ==
  [][/\ \A op \in DeleteOps : Called(op) => Gone(op)
     /\ \A op \in DeleteOps \cup UpdateOps : Called(op) => NoRowNoError(op)]_vars

\* C4 as amended: delete(id) followed by getById(id) returns absent unless
\* an appointment still references the row, in which case delete raises a
\* foreign-key violation and changes nothing; delete or update of an id that
\* matches no row does not raise and changes no table.
C4_DeleteThenAbsentUnlessReferenced ==
  [][/\ \A op \in DeleteOps :
          Called(op) =>
            /\ last'.err = OK => Gone(op)
            /\ last'.err # OK =>
                  /\ last'.err = FOREIGNKEY
                  /\ op \in {"customerDb.delete", "employeeDb.delete"}
                  /\ \E a \in DOMAIN appointments :
                        last'.id \in {appointments[a].customer_id, appointments[a].employee_id}
                  /\ tables' = tables
     /\ \A op \in DeleteOps \cup UpdateOps : Called(op) => NoRowNoError(op)]_vars

\* A seeded customer has been deleted, the other seeded customer is still
\* there, and the lookup of the deleted id finds nothing.
C4_Witness ==
  /\ last.op = "customerDb.delete" /\ last.err = OK
  /\ last.id = <<"mock", 1>>
  /\ <<"mock", 2>> \in DOMAIN customers
  /\ CustomerGetById(customers, last.id) = Absent

(***************************************************************************)
(* C5.  Phone uniqueness.                                                  *)
(***************************************************************************)
PhoneHeld(tbl, id, phone) == \E i \in DOMAIN tbl : i # id /\ tbl[i].phone = phone

UniquenessErrors == {UNIQUE, PRIMARYKEY}

\* No two customer rows have the same phone.
PhonesDistinct ==
  \A i, j \in DOMAIN customers : i # j => customers[i].phone # customers[j].phone

\* The INSERT of a seed customer whose phone another row holds fails with a
\* uniqueness violation and leaves the customers table as it is.
SeedInsertRefused ==
  \A k \in DOMAIN mockCustomers :
     PhoneHeld(customers, mockCustomers[k].id, mockCustomers[k].phone) =>
        LET r == Insert("customers", customers, SeedCustomerRow(mockCustomers[k]), clock)
        IN  /\ r.tbl = customers
            /\ r.err \in UniquenessErrors
            /\ mockCustomers[k].id \notin DOMAIN customers => r.err = UNIQUE

\* C5: in every reachable state no two customer rows have the same phone;
\* customerDb.create, customerDb.update of phone and the seed's INSERT of a
\* customer, with a phone that another customer row holds, fail with a
\* uniqueness violation (that of the phone, unless the key is taken too) and
\* leave the customers table unchanged.
C5_PhoneUnique ==
  /\ [](PhonesDistinct /\ SeedInsertRefused)
  /\ [][/\ (Called("customerDb.create")
              /\ \E i \in DOMAIN customers : customers[i].phone = last'.arg.phone) =>
             /\ last'.err \in UniquenessErrors
             /\ last'.id \notin DOMAIN customers => last'.err = UNIQUE
             /\ customers' = customers
        /\ (Called("customerDb.update") /\ last'.id \in DOMAIN customers
              /\ Defined(last'.arg, "phone")
              /\ PhoneHeld(customers, last'.id, last'.arg.phone)) =>
             (last'.err = UNIQUE /\ customers' = customers)
        /\ (SeedRan /\ \E k \in DOMAIN mockCustomers :
                         PhoneHeld(customers, mockCustomers[k].id, mockCustomers[k].phone)) =>
             last'.err \in UniquenessErrors]_vars

\* A create was refused for its phone while the table held two customers
\* with different phones.
C5_Witness ==
  /\ last.op = "customerDb.create" /\ last.err = UNIQUE
  /\ Cardinality(DOMAIN customers) = 2
  /\ \E i \in DOMAIN customers : customers[i].phone = last.arg.phone

SeedFields(row, fields) == [f \in fields |-> row[f]]

Range(seq) == {seq[i] : i \in DOMAIN seq}

\* What the four getAll return is exactly the seed provider's records (the
\* employees with email and phone ''), and appointments and tally_items are empty.
ExactlySeeded(cust, emp, svc, prod, appt, tally) ==
  /\ CustomerGetAll(cust) = Range(mockCustomers)
  /\ EmployeeGetAll(emp) = {[email |-> "", phone |-> ""] @@ e : e \in Range(mockEmployees)}
  /\ {SeedFields(r, DOMAIN mockServices[1]) : r \in ServiceGetAll(svc)} = Range(mockServices)
  /\ {SeedFields(r, DOMAIN mockProducts[1]) : r \in ProductGetAll(prod)} = Range(mockProducts)
  /\ appt = NoTable
  /\ tally = NoTable

\* The seed callback ran to its end.
SeedCompleted == SeedRan /\ last'.err = OK

\* C7 as claimed: starting from an empty database, once initDatabase has
\* been called and its seed step has completed, the reads return exactly the
\* seed records and appointments and tally_items are empty; and the seed step
\* eventually runs.
C7_SeedExact ==
  /\ [][SeedCompleted =>
          ExactlySeeded(customers', employees', services', products', appointments',
                        tally_items')]_vars
  /\ <>(last.op = "seed")

\* C7 as amended: starting from an empty database, when the seed step runs
\* on a store that is still empty (no caller has written a row in between),
\* it completes, and then the reads return exactly the seed records and
\* appointments and tally_items are empty; the seed step eventually runs
\* after initDatabase has returned.
C7_SeedExactOnEmptyStore ==
  /\ [][(SeedRan /\ ~StoreNonEmpty) =>
          /\ last'.err = OK
          /\ ExactlySeeded(customers', employees', services', products', appointments',
                           tally_items')]_vars
  /\ <>(last.op = "seed")

\* The seed callback has just completed and the store holds the seed.
C7_Witness ==
  /\ last.op = "seed" /\ last.err = OK
  /\ ExactlySeeded(customers, employees, services, products, appointments, tally_items)
  /\ Cardinality(DOMAIN customers) = Len(mockCustomers)

(***************************************************************************)
(* C8.  No duplicate seeding.                                              *)
(***************************************************************************)
RowCounts ==
  <<Cardinality(DOMAIN customers), Cardinality(DOMAIN employees),
    Cardinality(DOMAIN services), Cardinality(DOMAIN appointments),
    Cardinality(DOMAIN tally_items), Cardinality(DOMAIN products)>>

\* C8: initDatabase called on a store in which some table has a row, and the
\* seed callback such a call schedules, leave the row counts of all six
\* tables unchanged and raise no error.
C8_NoDuplicateSeeding ==
  [][/\ (Called("initDatabase") /\ StoreNonEmpty) => (RowCounts' = RowCounts /\ last'.err = OK)
     /\ (SeedRan /\ last'.arg.nonEmpty) => (RowCounts' = RowCounts /\ last'.err = OK)]_vars

(***************************************************************************)
(* C9.  Payment transition.                                                *)
(***************************************************************************)
\* The getAll entry of a tally item before and after updatePaymentStatus:
\* the status is the one given, and every field but the status and the
\* transaction id is as it was.
PaymentApplied ==
  LET before == TallyOfRow(tally_items[last'.id])
      after == TallyOfRow(tally_items'[last'.id])
  IN  /\ after.paymentStatus = last'.arg.status
      /\ \A f \in DOMAIN before \ {"paymentStatus", "upiTransactionId"} : after[f] = before[f]

\* Every tally item has one of the four payment statuses, and the
\* paymentDate stamped when it was created.
TallyWellFormed ==
  \A i \in DOMAIN tally_items :
     /\ tally_items[i].payment_status \in PaymentStatuses
     /\ tally_items[i].payment_date = ISOString(i[2])

\* C9 as claimed: after updatePaymentStatus(id, status, upiTransactionId) the
\* entry shows the status and the given transaction id (none, when none was
\* given), paymentDate and every other field as stamped at creation.
C9_PaymentTransition ==
  /\ []TallyWellFormed
  /\ [][(Called("tallyDb.updatePaymentStatus") /\ last'.id \in DOMAIN tally_items) =>
          /\ PaymentApplied
          /\ tally_items'[last'.id].upi_transaction_id =
               IF Defined(last'.arg, "upiTransactionId") THEN last'.arg.upiTransactionId
               ELSE NULL]_vars

\* C9 as amended: the entry shows the given transaction id when it is a
\* non-empty string, and no transaction id (null) when none or '' is given.
C9_PaymentTransitionNonEmptyId ==
  /\ []TallyWellFormed
  /\ [][(Called("tallyDb.updatePaymentStatus") /\ last'.id \in DOMAIN tally_items) =>
          /\ PaymentApplied
          /\ tally_items'[last'.id].upi_transaction_id =
               IF TruthyStr(last'.arg, "upiTransactionId") THEN last'.arg.upiTransactionId
               ELSE NULL]_vars

\* A pending upi item was completed with a transaction id, later than it
\* was created.
C9_Witness ==
  /\ last.op = "tallyDb.updatePaymentStatus" /\ last.id \in DOMAIN tally_items
  /\ TallyOfRow(tally_items[last.id]).paymentStatus = "completed"
  /\ TallyOfRow(tally_items[last.id]).upiTransactionId = "TXN123"
  /\ TallyOfRow(tally_items[last.id]).paymentMethod = "upi"
  /\ TallyOfRow(tally_items[last.id]).paymentDate # ISOString(clock)

(***************************************************************************)
(* C10.  Detached seeding.                                                 *)
(***************************************************************************)
\* C10: initDatabase returns before any seed row is inserted: the first call
\* leaves the six tables empty with the seed callback waiting, and every
\* later call leaves the tables as they are and, on an empty customers
\* table, leaves one more callback waiting.
C10_InitReturnsBeforeSeed ==
  /\ (~StoreNonEmpty /\ Len(pending) = 1)
  /\ [][Called("initDatabase") =>
          /\ tables' = tables
          /\ DOMAIN customers = {} => Len(pending') = Len(pending) + 1]_vars

\* Between the zero-row check and the seed insertion a caller has written a
\* row and then read the customers, and the read came back empty.
C10_Witness ==
  /\ pending # <<>>
  /\ last.op = "customerDb.getAll" /\ last.ret = {}
  /\ DOMAIN products # {}

\* The other observable outcome: the callback ran into a row written in the
\* meantime and left the store partially seeded.
C10_PartiallySeeded ==
  /\ last.op = "seed" /\ last.err # OK
  /\ <<"mock", 1>> \in DOMAIN customers
  /\ DOMAIN employees = {}

(***************************************************************************)
(* C11.  Referential integrity under delete.                               *)
(***************************************************************************)
\* Every appointment row points at a customer row and an employee row.
AppointmentsReferToRows ==
  \A a \in DOMAIN appointments :
     /\ appointments[a].customer_id \in DOMAIN customers
     /\ appointments[a].employee_id \in DOMAIN employees

\* The call was a delete of a customer or an employee that an appointment
\* references through the matching column.
DeleteOfReferenced ==
  \/ /\ Called("customerDb.delete")
     /\ last'.id \in DOMAIN customers
     /\ \E a \in DOMAIN appointments : appointments[a].customer_id = last'.id
  \/ /\ Called("employeeDb.delete")
     /\ last'.id \in DOMAIN employees
     /\ \E a \in DOMAIN appointments : appointments[a].employee_id = last'.id

\* C11: in every reachable state every appointment's customerId matches a
\* customer row and its employeeId matches an employee row; a
\* customerDb.delete or employeeDb.delete of an id that an appointment still
\* references fails with the foreign-key violation, deletes no appointment,
\* and leaves the referenced row and every table unchanged.
C11_ReferentialIntegrityUnderDelete ==
  /\ []AppointmentsReferToRows
  /\ [][DeleteOfReferenced => (last'.err = FOREIGNKEY /\ tables' = tables)]_vars

\* employeeDb.delete of an employee with an appointment has just been
\* refused: the employee and the appointment are both still there.
C11_Witness ==
  /\ last.op = "employeeDb.delete" /\ last.err = FOREIGNKEY
  /\ last.id \in DOMAIN employees
  /\ \E a \in DOMAIN appointments : appointments[a].employee_id = last.id

(***************************************************************************)
(* The bootstrap, the seed, the clock and the customer and product calls,  *)
(* with the scheduling of the seed callback: a promise callback that is    *)
(* waiting is eventually run by the event loop.                            *)
(***************************************************************************)
NextSeed ==
  \/ InitDatabase
  \/ SeedStep
  \/ Tick
  \/ \E customer \in CustomerInputs : CustomerCreate(customer)
  \/ \E id \in CustomerIds : CustomerDelete(id)
  \/ CustomerRead
  \/ \E product \in ProductInputs : ProductCreate(product)
  \/ \E id \in ProductIds : ProductDelete(id)

SeedSpec == Init /\ [][NextSeed]_vars /\ WF_vars(SeedStep)

====
